---- MODULE Spec2Model ----
(***************************************************************************)
(* Model of obsidian-claude-code-mcp's selection tracking:                 *)
(*   - WorkspaceManager (src/src/obsidian/workspace-manager.ts): the       *)
(*     workspace event handlers, the DOM gate, getCurrentSelection, the    *)
(*     single cache slot, the notification shaping and the asynchronous    *)
(*     debug log write;                                                    *)
(*   - the selection highlight extension (src/unnamed/part_000): the      *)
(*     decoration state field and the focus change handler.                *)
(* The host (Obsidian workspace, CodeMirror editor, DOM) is the            *)
(* environment: its state is modelled as variables changed by environment  *)
(* actions, and what a single read may do (throw or not) is an input of    *)
(* the handler that performs the read.                                     *)
(***************************************************************************)
EXTENDS Naturals, Integers, Sequences, FiniteSets, TLC

VARIABLES
    views,                  \* the views that have an editor: alive, file, CM selection (anchor, head)
    leaf,                   \* workspace.activeLeaf: a view with an editor or the non-editing panel
    lastFile,               \* the workspace's most recently active file
    cachedSelectionState,   \* WorkspaceManager.cachedSelectionState: <<>> (null) or <<state>>
    clock,                  \* Date.now(), advanced by every handled event
    ev,                     \* observation of the last handled event (cleared by environment steps)
    debugLog,               \* the records of _mcp-debug.log, each named by the invocation that wrote it
    logTasks,               \* the asynchronous log writes started so far, by invocation
    edDoc,                  \* highlight extension: the editor's document
    edSel,                  \* highlight extension: state.selection.main (anchor, head)
    edFocus,                \* highlight extension: whether the editor has focus
    deco,                   \* highlight extension: selectionHighlightField, <<>> or <<[from, to]>>
    edLast                  \* highlight extension: the last transaction, and whether a mark was shown before it

vars == <<views, leaf, lastFile, cachedSelectionState, clock, ev, debugLog, logTasks,
          edDoc, edSel, edFocus, deco, edLast>>
logVars == <<debugLog, logTasks>>
wmVars == <<views, leaf, lastFile, cachedSelectionState, clock, ev, logVars>>
edVars == <<edDoc, edSel, edFocus, deco, edLast>>

----------------------------------------------------------------------------
(* Bounds *)

\* number of events handled in one behaviour
MaxClock == 2
\* length of the ancestor chain above the DOM selection's anchor
MaxDepth == 3
\* length of the highlight extension's document
MaxDoc == 3

----------------------------------------------------------------------------
(* Data *)

Min(a, b) == IF a <= b THEN a ELSE b
Max(a, b) == IF a >= b THEN a ELSE b

MdViews == {"m1", "m2"}
\* views that are not MarkdownViews but expose an editor property
OtherEditorViews == {"e1"}
EditorViews == MdViews \cup OtherEditorViews
\* the views that navigate between files; the other view keeps its file
Navigable == {"m1"}
Panel == "panel"
NoView == "noview"
Files == {"a.md", "b.md"}
NoFile == "null"
BasePath == "/vault"

\* the document a file holds: a sequence of characters, "\n" ends a line
DocOf(f) ==
    IF f = "a.md" THEN <<"a", "\n">>
    ELSE IF f = "b.md" THEN <<"x">>
    ELSE <<>>

Pos(l, c) == [line |-> l, character |-> c]
Range(s, e, emp) == [start |-> s, end |-> e, isEmpty |-> emp]
ZeroRange == Range(Pos(0, 0), Pos(0, 0), TRUE)

\* document order on positions: line, then character
PosLeq(p, q) == p.line < q.line \/ (p.line = q.line /\ p.character <= q.character)

\* "file://" + absolute path; the absolute path joins the vault base path and the relative path
joinPath(base, rel) == base \o "/" \o rel
getAbsolutePath(relativePath) == joinPath(BasePath, relativePath)
fileUrlOf(path) == "file://" \o getAbsolutePath(path)

----------------------------------------------------------------------------
(* CodeMirror text: doc.lineAt, doc.sliceString, selection.main *)

NewlinesUpTo(doc, pos) == {i \in 1..pos : doc[i] = "\n"}

\* mutant: the line's start offset is not located (the character is the linear offset)
lineAt_DocOffset(doc, pos) ==
    LET nl == NewlinesUpTo(doc, pos)
    IN  [number |-> Cardinality(nl) + 1, from |-> 0]

\* doc.lineAt(pos): the line holding offset pos, its 1-based number and its start offset
lineAt(doc, pos) ==
    LET nl == NewlinesUpTo(doc, pos)
    IN  [number |-> Cardinality(nl) + 1,
         from |-> IF nl = {} THEN 0 ELSE CHOOSE i \in nl : \A j \in nl : j <= i]

sliceString(doc, from, to) == SubSeq(doc, from + 1, to)

\* mutant: from/to taken as anchor/head, a reversed drag left unordered
mainSelection_Unordered(v) ==
    [from |-> v.anchor, to |-> v.head, empty |-> v.anchor = v.head, head |-> v.head]

\* state.selection.main of a view: from/to are the ordered ends of (anchor, head)
mainSelection(v) ==
    [from |-> Min(v.anchor, v.head), to |-> Max(v.anchor, v.head),
     empty |-> v.anchor = v.head, head |-> v.head]

viewDoc(v) == DocOf(v.file)

\* the largest offset of any document
MaxPos == Max(Len(DocOf("a.md")), Len(DocOf("b.md")))

----------------------------------------------------------------------------
(* Environment of one handler run: whether the CodeMirror access it performs
   throws (editor internals unavailable), and what the plain editor accessor
   does: "sel" reports the selection, "empty" reports no selection with the
   cursor at the head (its behaviour when the editor is unfocused), "throw"
   raises. *)
IOs == {[cm |-> FALSE, plain |-> "sel"]} \cup [cm : {TRUE}, plain : {"sel", "empty", "throw"}]

\* (editor as any).cm.state is readable: the view still exists and the access does not throw
cmReadable(v, io) == views[v].alive /\ ~io.cm

\* the (line, character) range of state.selection.main
cmRange(doc, sel) ==
    LET hasSelection == ~sel.empty
        fromLine == lineAt(doc, sel.from)
        toLine == lineAt(doc, sel.to)
    IN  IF hasSelection
        THEN Range(Pos(fromLine.number - 1, sel.from - fromLine.from),
                   Pos(toLine.number - 1, sel.to - toLine.from), FALSE)
        ELSE Range(Pos(fromLine.number - 1, sel.from - fromLine.from),
                   Pos(fromLine.number - 1, sel.from - fromLine.from), TRUE)

cmText(doc, sel) ==
    IF ~sel.empty THEN sliceString(doc, sel.from, sel.to) ELSE <<>>

\* editor.getSelection()
plainGetSelection(v, mode) ==
    IF mode = "sel" THEN cmText(viewDoc(v), mainSelection(v)) ELSE <<>>

\* editor.getCursor(which): "head" (no argument), "from" or "to", as {line, ch}
plainGetCursor(v, mode, which) ==
    LET sel == mainSelection(v)
        off == IF mode = "sel" /\ which = "from" THEN sel.from
               ELSE IF mode = "sel" /\ which = "to" THEN sel.to
               ELSE sel.head
        ln == lineAt(viewDoc(v), off)
    IN  [line |-> ln.number - 1, ch |-> off - ln.from]

\* the catch branch: the selection as the plain editor accessor reports it
plainRange(v, mode) ==
    LET selection == plainGetSelection(v, mode)
        cursor == plainGetCursor(v, mode, "head")
        hasSelection == Len(selection) > 0
        from == plainGetCursor(v, mode, "from")
        to == plainGetCursor(v, mode, "to")
    IN  IF hasSelection
        THEN Range(Pos(from.line, from.ch), Pos(to.line, to.ch), FALSE)
        ELSE Range(Pos(cursor.line, cursor.ch), Pos(cursor.line, cursor.ch), TRUE)

----------------------------------------------------------------------------
(* Workspace accessors *)

\* workspace.getActiveViewOfType(MarkdownView)
getActiveViewOfType == IF leaf \in MdViews THEN leaf ELSE NoView

\* workspace.getActiveFile(): the active view's file, else the most recently active file
getActiveFile == IF leaf \in EditorViews THEN views[leaf].file ELSE lastFile

----------------------------------------------------------------------------
(* getCurrentSelection *)

\* a result of getCurrentSelection: kind "ok" (a snapshot), "null" or "throw"
\* (an exception leaves the method). src and readAt are observations: which
\* branch produced the snapshot and the time its text and range were read.
Snap(kind, text, filePath, selection, fromCache, src, readAt) ==
    [kind |-> kind, text |-> text, filePath |-> filePath, selection |-> selection,
     fromCache |-> fromCache, src |-> src, readAt |-> readAt]

NullSnap(now) == Snap("null", <<>>, NoFile, ZeroRange, FALSE, "null", now)
ThrowSnap(now) == Snap("throw", <<>>, NoFile, ZeroRange, FALSE, "throw", now)
NoSnap == Snap("none", <<>>, NoFile, ZeroRange, FALSE, "none", 0)

\* transaction-state read of the active view
activeViewRead(v, activeFile, now) ==
    LET doc == viewDoc(views[v])
        sel == mainSelection(views[v])
    IN  Snap("ok", cmText(doc, sel), activeFile, cmRange(doc, sel), FALSE, "cm", now)

\* the catch branch of the active view's read: the plain editor accessor
activeViewFallback(v, activeFile, io, now) ==
    IF io.plain = "throw"
    THEN ThrowSnap(now)
    ELSE Snap("ok", plainGetSelection(views[v], io.plain), activeFile,
              plainRange(views[v], io.plain), FALSE, "plain", now)

\* mutant: the re-read through the cached view is reported as a cache hit
cachedViewRead_FromCache(c, now) ==
    LET doc == viewDoc(views[c.view])
        sel == mainSelection(views[c.view])
    IN  Snap("ok", cmText(doc, sel), c.filePath, cmRange(doc, sel), TRUE, "reread", now)

\* mutant: the stored fields are served although the cached view can be read
cachedViewRead_Stale(c, now) ==
    Snap("ok", c.text, c.filePath, c.selection, FALSE, "reread", now)

\* transaction-state read through the cached view reference
cachedViewRead(c, now) ==
    LET doc == viewDoc(views[c.view])
        sel == mainSelection(views[c.view])
    IN  Snap("ok", cmText(doc, sel), c.filePath, cmRange(doc, sel), FALSE, "reread", now)

\* mutant: nothing is served when the cached view cannot be read
cachedAsIs_Null(c) == NullSnap(c.timestamp)

\* the cached data as-is
cachedAsIs(c) ==
    Snap("ok", c.text, c.filePath, c.selection, TRUE, "stored", c.timestamp)

\* mutant: the cache is not consulted when no active view qualifies
getCurrentSelection_NoCache(io, now) ==
    LET activeView == getActiveViewOfType
        activeFile == getActiveFile
    IN  IF activeView # NoView /\ activeFile # NoFile
        THEN IF cmReadable(activeView, io)
             THEN activeViewRead(activeView, activeFile, now)
             ELSE activeViewFallback(activeView, activeFile, io, now)
        ELSE NullSnap(now)

getCurrentSelection(io, now) ==
    LET activeView == getActiveViewOfType
        activeFile == getActiveFile
    IN  IF activeView # NoView /\ activeFile # NoFile
        THEN IF cmReadable(activeView, io)
             THEN activeViewRead(activeView, activeFile, now)
             ELSE activeViewFallback(activeView, activeFile, io, now)
        ELSE IF cachedSelectionState # <<>>
        THEN IF cmReadable(cachedSelectionState[1].view, io)
             THEN cachedViewRead(cachedSelectionState[1], now)
             ELSE cachedAsIs(cachedSelectionState[1])
        ELSE NullSnap(now)

----------------------------------------------------------------------------
(* The DOM gate *)

\* an element is the set of its classes; a chain lists the anchor's element and
\* its ancestors, innermost first
Classes == {"cm-editor", "CodeMirror", "markdown-source-view", "markdown-preview-view",
            "workspace", "modal", "vertical-tab-content"}
EditorClasses == {"cm-editor", "CodeMirror", "markdown-source-view", "markdown-preview-view"}
Elems == {{}} \cup {{c} : c \in Classes}

\* window.getSelection(): has = FALSE when there is no selection, no range or no anchor node
Dom(has, chain) == [has |-> has, chain |-> chain]
NoDom == Dom(FALSE, <<>>)
ChainsOfLen(n) == [1..n -> Elems]
AllDoms == {NoDom} \cup {Dom(TRUE, ch) : ch \in UNION {ChainsOfLen(n) : n \in 0..MaxDepth}}

\* the DOM selections the workspace behaviours draw from
SampleDoms ==
    {Dom(TRUE, <<{}, {"cm-editor"}, {"markdown-source-view"}, {"workspace"}>>),
     Dom(TRUE, <<{"cm-editor"}, {"modal"}>>)}

\* element.closest("." + c), from the element at index i upward (itself included)
closest(chain, i, c) == \E j \in i..Len(chain) : c \in chain[j]

RECURSIVE walkUp(_, _)
walkUp(chain, i) ==
    IF i > Len(chain) THEN FALSE
    ELSE IF chain[i] \cap EditorClasses # {}
    THEN /\ closest(chain, i, "workspace")
         /\ ~closest(chain, i, "modal")
         /\ ~closest(chain, i, "vertical-tab-content")
    ELSE walkUp(chain, i + 1)

isSelectionInEditableNote(dom) ==
    IF ~dom.has THEN FALSE ELSE walkUp(dom.chain, 1)

----------------------------------------------------------------------------
(* Shaping and broadcast *)

Params(text, filePath, fileUrl, selection) ==
    [text |-> text, filePath |-> filePath, fileUrl |-> fileUrl, selection |-> selection]

\* what one handler run did: the notifications handed to onSelectionChange, whether
\* an exception left the handler, the cache it leaves, what it read, and the log
\* writes it started
Run(out, threw, cache, q) ==
    [out |-> out, threw |-> threw, cache |-> cache, q |-> q, log |-> <<>>]

\* broadcastSelectionChange: the params handed to config.onSelectionChange
broadcastSelectionChange(params) == <<params>>

shapeSelection(q) ==
    Params(q.text, q.filePath, fileUrlOf(q.filePath), q.selection)

\* mutant: the range of the empty shape is not marked empty
shapeEmpty_NotEmpty(activeFile) ==
    Params(<<>>, activeFile,
           IF activeFile # NoFile THEN fileUrlOf(activeFile) ELSE NoFile,
           Range(Pos(0, 0), Pos(0, 0), FALSE))

shapeEmpty(activeFile) ==
    Params(<<>>, activeFile,
           IF activeFile # NoFile THEN fileUrlOf(activeFile) ELSE NoFile,
           ZeroRange)

\* a log write in flight: stage "read" (adapter.read pending), "write"
\* (adapter.write pending, content is what it writes), "done" or "failed";
\* clean while each of its calls has succeeded
Task(stage, content, clean) == [stage |-> stage, content |-> content, clean |-> clean]

\* what a call of the adapter does at once: return a promise, or throw
LogCalls == {"ok", "throw"}
\* how a promise of the adapter settles
LogResults == {"ok", "reject"}

\* mutant: a throw of adapter.read leaves the function that started the write
startLogWrite_Unguarded(call) ==
    [threw |-> call = "throw",
     tasks |-> IF call = "throw" THEN <<>> ELSE <<Task("read", <<>>, TRUE)>>]

\* the async function up to its first await: adapter.read is called inside the
\* try, a throw is caught there and ends the write
startLogWrite(call) ==
    [threw |-> FALSE,
     tasks |-> IF call = "throw" THEN <<Task("failed", <<>>, FALSE)>>
               ELSE <<Task("read", <<>>, TRUE)>>]

sendCurrentFileContext(io, call, now) ==
    LET currentSelection == getCurrentSelection(io, now)
        activeFile == getActiveFile
        log == startLogWrite(call)
    IN  IF currentSelection.kind = "throw"
        THEN Run(<<>>, TRUE, cachedSelectionState, currentSelection)
        ELSE IF log.threw
        THEN [Run(<<>>, TRUE, cachedSelectionState, currentSelection)
                EXCEPT !.log = log.tasks]
        ELSE IF currentSelection.kind = "ok" /\ currentSelection.filePath # NoFile
        THEN [Run(broadcastSelectionChange(shapeSelection(currentSelection)),
                  FALSE, cachedSelectionState, currentSelection)
                EXCEPT !.log = log.tasks]
        ELSE [Run(broadcastSelectionChange(shapeEmpty(activeFile)),
                  FALSE, cachedSelectionState, currentSelection)
                EXCEPT !.log = log.tasks]

\* the CachedSelectionState sendSelectionContext stores
CacheEntry(text, filePath, selection, view, now) ==
    [text |-> text, filePath |-> filePath, fileUrl |-> fileUrlOf(filePath),
     selection |-> selection, view |-> view, timestamp |-> now]

\* the read of sendSelectionContext: CodeMirror state, else the plain accessor
selectionContextRead(v, activeFile, io, now) ==
    LET doc == viewDoc(views[v])
        sel == mainSelection(views[v])
    IN  IF cmReadable(v, io)
        THEN Snap("ok", cmText(doc, sel), activeFile, cmRange(doc, sel), FALSE, "cm", now)
        ELSE IF io.plain = "throw"
        THEN ThrowSnap(now)
        ELSE Snap("ok", plainGetSelection(views[v], io.plain), activeFile,
                  plainRange(views[v], io.plain), FALSE, "plain", now)

\* mutant: sendSelectionContext does not store what it read
cacheAfterSelection_Skip(r, activeView, now) == cachedSelectionState

\* the cache after sendSelectionContext read r with activeView active
cacheAfterSelection(r, activeView, now) ==
    IF activeView # NoView
    THEN <<CacheEntry(r.text, r.filePath, r.selection, activeView, now)>>
    ELSE cachedSelectionState

sendSelectionContext(editorView, io, now) ==
    LET activeFile == getActiveFile
        activeView == getActiveViewOfType
        r == selectionContextRead(editorView, activeFile, io, now)
    IN  IF activeFile = NoFile
        THEN Run(<<>>, FALSE, cachedSelectionState, NoSnap)
        ELSE IF r.kind = "throw"
        THEN Run(<<>>, TRUE, cachedSelectionState, r)
        ELSE Run(broadcastSelectionChange(shapeSelection(r)), FALSE,
                 cacheAfterSelection(r, activeView, now), r)

\* (activeLeaf.view as any).editor: any view that exposes an editor
hasEditor(l) == l \in EditorViews

checkAndSendSelection(dom, io, now) ==
    IF ~isSelectionInEditableNote(dom)
    THEN Run(<<>>, FALSE, cachedSelectionState, NoSnap)
    ELSE IF hasEditor(leaf)
    THEN sendSelectionContext(leaf, io, now)
    ELSE Run(<<>>, FALSE, cachedSelectionState, NoSnap)

----------------------------------------------------------------------------
(* Workspace behaviours: the environment and the event handlers *)

View(alive, file, anchor, head) ==
    [alive |-> alive, file |-> file, anchor |-> anchor, head |-> head]
DeadView == View(FALSE, NoFile, 0, 0)

\* the observation of a handled event
Event(type, at, dom, run) ==
    [type |-> type, at |-> at, dom |-> dom, out |-> run.out, threw |-> run.threw,
     q |-> run.q, log |-> run.log]
IdleEv == Event("idle", 0, NoDom, Run(<<>>, FALSE, <<>>, NoSnap))

\* The environment moves only while an event can still observe it.

\* the user or a command moves the selection of a view
SetSelection(v, a, h) ==
    /\ clock < MaxClock
    /\ views[v].alive
    /\ a \in 0..Len(viewDoc(views[v])) /\ h \in 0..Len(viewDoc(views[v]))
    /\ <<a, h>> # <<views[v].anchor, views[v].head>>
    /\ views' = [views EXCEPT ![v].anchor = a, ![v].head = h]
    /\ ev' = IdleEv
    /\ UNCHANGED <<leaf, lastFile, cachedSelectionState, clock, logVars, edVars>>

\* a view shows another file (or none): a new document, the cursor at its start
OpenFile(v, f) ==
    /\ clock < MaxClock
    /\ views[v].alive
    /\ f # views[v].file
    /\ views' = [views EXCEPT ![v] = View(TRUE, f, 0, 0)]
    /\ lastFile' = IF v = leaf /\ f # NoFile THEN f ELSE lastFile
    /\ ev' = IdleEv
    /\ UNCHANGED <<leaf, cachedSelectionState, clock, logVars, edVars>>

\* another leaf becomes the active one
SwitchLeaf(l) ==
    /\ clock < MaxClock
    /\ l # leaf
    /\ IF l = Panel THEN TRUE ELSE views[l].alive
    /\ leaf' = l
    /\ lastFile' = IF l \in EditorViews /\ views[l].file # NoFile THEN views[l].file ELSE lastFile
    /\ ev' = IdleEv
    /\ UNCHANGED <<views, cachedSelectionState, clock, logVars, edVars>>

\* a view that is not the active one is closed: its editor is destroyed
DestroyView(v) ==
    /\ clock < MaxClock
    /\ views[v].alive
    /\ v # leaf
    /\ views' = [views EXCEPT ![v] = DeadView]
    /\ ev' = IdleEv
    /\ UNCHANGED <<leaf, lastFile, cachedSelectionState, clock, logVars, edVars>>

\* a handler ran at time now: the cache it leaves and its observation
Handled(type, dom, run, now) ==
    /\ clock' = now
    /\ cachedSelectionState' = run.cache
    /\ ev' = Event(type, now, dom, run)
    /\ logTasks' = logTasks \o run.log
    /\ UNCHANGED <<views, leaf, lastFile, debugLog, edVars>>

\* workspace.on("active-leaf-change")
ActiveLeafChange(io, call) ==
    /\ clock < MaxClock
    /\ Handled("active-leaf-change", NoDom, sendCurrentFileContext(io, call, clock + 1),
               clock + 1)

\* workspace.on("file-open"), with a file or with null
FileOpen(file, io, call) ==
    /\ clock < MaxClock
    /\ IF file # NoFile
       THEN Handled("file-open", NoDom, sendCurrentFileContext(io, call, clock + 1),
                    clock + 1)
       ELSE Handled("file-open-null", NoDom,
                    Run(<<>>, FALSE, cachedSelectionState, NoSnap), clock + 1)

\* document "selectionchange"
SelectionChange(dom, io) ==
    /\ clock < MaxClock
    /\ Handled("selectionchange", dom, checkAndSendSelection(dom, io, clock + 1), clock + 1)

\* sendInitialContext, called once the plugin has loaded
SendInitialContext(io, call) ==
    /\ clock = 0
    /\ Handled("initial", NoDom, sendCurrentFileContext(io, call, clock + 1), clock + 1)

\* the read of log write i settles (a rejection reads as the empty log), and the
\* function goes on to call adapter.write with what it read plus its record
LogRead(i, result, call) ==
    /\ i \in 1..Len(logTasks) /\ logTasks[i].stage = "read"
    /\ LET existing == IF result = "ok" THEN debugLog ELSE <<>>
       IN  logTasks' = [logTasks EXCEPT ![i] =
                           IF call = "throw"
                           THEN Task("failed", <<>>, FALSE)
                           ELSE Task("write", Append(existing, i),
                                     logTasks[i].clean /\ result = "ok")]
    /\ UNCHANGED <<views, leaf, lastFile, cachedSelectionState, clock, ev, debugLog, edVars>>

\* the write of log write i settles: the file holds its content, or the
\* rejection is caught
LogWrite(i, result) ==
    /\ i \in 1..Len(logTasks) /\ logTasks[i].stage = "write"
    /\ debugLog' = IF result = "ok" THEN logTasks[i].content ELSE debugLog
    /\ logTasks' = [logTasks EXCEPT ![i] =
                       IF result = "ok"
                       THEN Task("done", <<>>, logTasks[i].clean)
                       ELSE Task("failed", <<>>, FALSE)]
    /\ UNCHANGED <<views, leaf, lastFile, cachedSelectionState, clock, ev, edVars>>

\* getCurrentSelection called by a tool (it is public)
ToolQuery(io) ==
    /\ clock < MaxClock
    /\ Handled("query", NoDom,
               Run(<<>>, getCurrentSelection(io, clock + 1).kind = "throw",
                   cachedSelectionState, getCurrentSelection(io, clock + 1)),
               clock + 1)

WmInit ==
    /\ views = [v \in EditorViews |->
                   IF v \in OtherEditorViews THEN View(TRUE, "b.md", 0, 1)
                   ELSE View(TRUE, IF v = "m1" THEN "a.md" ELSE "b.md", 0, 0)]
    /\ leaf = Panel
    /\ lastFile = NoFile
    /\ cachedSelectionState = <<>>
    /\ clock = 0
    /\ ev = IdleEv
    /\ debugLog = <<>>
    /\ logTasks = <<>>

----------------------------------------------------------------------------
(* The selection highlight extension *)

DocChars == {"a", "\n"}

\* a setSelectionHighlight effect: clear (value null) or a range; OtherEffect is
\* an effect of another extension in the same transaction
ClearEffect == [own |-> TRUE, clear |-> TRUE, from |-> 0, to |-> 0]
SetEffect(from, to) == [own |-> TRUE, clear |-> FALSE, from |-> from, to |-> to]
OtherEffect == [own |-> FALSE, clear |-> FALSE, from |-> 0, to |-> 0]

edMain == [from |-> Min(edSel.anchor, edSel.head), to |-> Max(edSel.anchor, edSel.head),
           empty |-> edSel.anchor = edSel.head]

\* mutant: gaining focus dispatches no clear effect
focusChangeHandler_NoClear(selection, focusing) ==
    IF ~focusing /\ ~selection.empty
    THEN <<SetEffect(selection.from, selection.to)>>
    ELSE <<>>

\* mutant: losing focus marks the cursor position, not the selected range
focusChangeHandler_Collapsed(selection, focusing) ==
    IF focusing
    THEN <<ClearEffect>>
    ELSE IF ~selection.empty
    THEN <<SetEffect(selection.to, selection.to)>>
    ELSE <<>>

\* focusChangeHandler: the effects it adds to the focus change transaction
focusChangeHandler(selection, focusing) ==
    IF focusing
    THEN <<ClearEffect>>
    ELSE IF ~selection.empty
    THEN <<SetEffect(selection.from, selection.to)>>
    ELSE <<>>

\* a change replaces [from, to) by ins characters; ChangeDesc.mapPos
mapPos(pos, ch, assoc) ==
    LET len == ch.to - ch.from
    IN  IF pos < ch.from THEN pos
        ELSE IF ch.to > pos \/ (ch.to = pos /\ assoc < 0 /\ len = 0)
        THEN IF pos = ch.from \/ assoc < 0 THEN ch.from ELSE ch.from + ch.ins
        ELSE ch.from + ch.ins + (pos - ch.to)

\* mutant: the mark is not mapped through the change
mapDecorations_Unmapped(decorations, ch) == decorations

\* RangeSet.map for the one mark (its ends are not inclusive): dropped when it collapses
mapDecorations(decorations, ch) ==
    LET newFrom == mapPos(decorations[1].from, ch, 1)
        newTo == mapPos(decorations[1].to, ch, -1)
    IN  IF newFrom >= newTo THEN <<>> ELSE <<[from |-> newFrom, to |-> newTo]>>

\* selectionHighlightField.update
RECURSIVE updateEffects(_, _, _, _)
updateEffects(decorations, effects, i, docLength) ==
    IF i > Len(effects) THEN <<FALSE, decorations>>
    ELSE IF ~effects[i].own THEN updateEffects(decorations, effects, i + 1, docLength)
    ELSE IF effects[i].clear THEN <<TRUE, <<>>>>
    ELSE IF effects[i].from < effects[i].to /\ effects[i].to <= docLength
    THEN <<TRUE, <<[from |-> effects[i].from, to |-> effects[i].to]>>>>
    ELSE <<TRUE, <<>>>>

NoChange == [from |-> 0, to |-> 0, ins |-> 0]

update(decorations, effects, docChanged, ch, docLength) ==
    LET r == updateEffects(decorations, effects, 1, docLength)
    IN  IF r[1] THEN r[2]
        ELSE IF docChanged /\ decorations # <<>> THEN mapDecorations(decorations, ch)
        ELSE decorations

\* the observation of a transaction: its kind, whether a mark was shown before
\* it, and whether it deleted (inserting nothing) a range that holds the mark
Last(op, cover) == [op |-> op, mark |-> deco # <<>>, cover |-> cover]

\* the editor gains or loses focus: a transaction carrying the handler's effects,
\* after those of the other focus change handlers
FocusChange(focusing, others) ==
    /\ focusing # edFocus
    /\ edLast' = Last(IF focusing THEN "gain" ELSE "loss", FALSE)
    /\ edFocus' = focusing
    /\ deco' = update(deco, others \o focusChangeHandler(edMain, focusing), FALSE,
                      NoChange, Len(edDoc))
    /\ UNCHANGED <<edDoc, edSel, wmVars>>

\* the selection moves (no document change, no effect)
EdSelect(a, h) ==
    /\ a \in 0..Len(edDoc) /\ h \in 0..Len(edDoc)
    /\ <<a, h>> # <<edSel.anchor, edSel.head>>
    /\ edSel' = [anchor |-> a, head |-> h]
    /\ edLast' = Last("select", FALSE)
    /\ deco' = update(deco, <<>>, FALSE, NoChange, Len(edDoc))
    /\ UNCHANGED <<edDoc, edFocus, wmVars>>

\* SelectionRange.map: the selection through a change
mapSelection(sel, ch) ==
    IF sel.anchor = sel.head
    THEN [anchor |-> mapPos(sel.anchor, ch, -1), head |-> mapPos(sel.anchor, ch, -1)]
    ELSE IF sel.anchor < sel.head
    THEN [anchor |-> mapPos(sel.anchor, ch, 1), head |-> mapPos(sel.head, ch, -1)]
    ELSE [anchor |-> mapPos(sel.anchor, ch, -1), head |-> mapPos(sel.head, ch, 1)]

\* a document change: [from, to) is replaced by the characters txt
EdChange(from, to, txt) ==
    LET ch == [from |-> from, to |-> to, ins |-> Len(txt)]
        newDoc == SubSeq(edDoc, 1, from) \o txt \o SubSeq(edDoc, to + 1, Len(edDoc))
    IN  /\ from <= to /\ to <= Len(edDoc)
        /\ from < to \/ Len(txt) > 0
        /\ Len(newDoc) <= MaxDoc
        /\ edDoc' = newDoc
        /\ edLast' = Last("change", /\ deco # <<>> /\ Len(txt) = 0
                                    /\ from <= deco[1].from /\ deco[1].to <= to)
        /\ edSel' = mapSelection(edSel, ch)
        /\ deco' = update(deco, <<>>, TRUE, ch, Len(newDoc))
        /\ UNCHANGED <<edFocus, wmVars>>

\* the transaction-state read (state.selection.main, doc.sliceString, doc.lineAt)
\* applied to the state of this editor, which shows EdFile
EdFile == "a.md"
editorStateRead(now) ==
    Snap("ok", cmText(edDoc, edMain), EdFile, cmRange(edDoc, edMain), FALSE, "cm", now)

\* a tracker read of this editor's transaction state
StateRead ==
    /\ clock < MaxClock
    /\ Handled("read", NoDom,
               Run(<<>>, FALSE, cachedSelectionState, editorStateRead(clock + 1)), clock + 1)

EdInit ==
    /\ edDoc = <<"a", "\n">>
    /\ edSel = [anchor |-> 0, head |-> 0]
    /\ edFocus = FALSE
    /\ deco = <<>>
    /\ edLast = Last("create", FALSE)

EdNext ==
    \/ \E focusing \in BOOLEAN, others \in {<<>>, <<OtherEffect>>} : FocusChange(focusing, others)
    \/ \E a \in 0..MaxDoc, h \in 0..MaxDoc : EdSelect(a, h)
    \/ \E from \in 0..MaxDoc, to \in 0..MaxDoc, txt \in {<<>>} \cup {<<c>> : c \in DocChars} :
           EdChange(from, to, txt)

----------------------------------------------------------------------------
(* Specifications *)

Init == WmInit /\ EdInit

\* the workspace manager under every event and environment step; the log writes
\* its broadcasts start stay pending here, LogSpec runs them
WmNext ==
    \/ \E v \in MdViews, a \in 0..MaxPos, h \in 0..MaxPos : SetSelection(v, a, h)
    \/ \E v \in Navigable, f \in Files \cup {NoFile} : OpenFile(v, f)
    \/ \E l \in EditorViews \cup {Panel} : SwitchLeaf(l)
    \/ \E v \in MdViews : DestroyView(v)
    \/ \E io \in IOs : ActiveLeafChange(io, "ok")
    \/ \E file \in {getActiveFile, NoFile}, io \in IOs : FileOpen(file, io, "ok")
    \/ \E dom \in SampleDoms, io \in IOs : SelectionChange(dom, io)
    \/ \E io \in IOs : SendInitialContext(io, "ok")
    \/ \E io \in IOs : ToolQuery(io)

Next == WmNext
Spec == Init /\ [][Next]_vars

\* the DOM gate under every ancestor chain: the DOM selection is drawn from all
\* chains and the selectionchange handler runs on it, with any leaf active
GateInit ==
    /\ WmInit!1 /\ WmInit!4 /\ WmInit!5 /\ WmInit!7 /\ WmInit!8
    /\ leaf \in EditorViews \cup {Panel}
    /\ lastFile = IF leaf \in EditorViews THEN views[leaf].file ELSE NoFile
    /\ \E dom \in AllDoms : ev = [IdleEv EXCEPT !.dom = dom]
    /\ EdInit
GateNext == \E io \in IOs : SelectionChange(ev.dom, io)
GateSpec == GateInit /\ [][GateNext]_vars

\* the highlight extension
OverlaySpec == Init /\ [][EdNext]_vars

\* the context broadcasts and the log writes they start, under every outcome and
\* every interleaving of the adapter's reads and writes
LogNext ==
    \/ \E l \in EditorViews \cup {Panel} : SwitchLeaf(l)
    \/ \E dom \in SampleDoms, io \in IOs : SelectionChange(dom, io)
    \/ \E io \in IOs, call \in LogCalls : ActiveLeafChange(io, call)
    \/ \E file \in {getActiveFile, NoFile}, io \in IOs, call \in LogCalls :
           FileOpen(file, io, call)
    \/ \E io \in IOs, call \in LogCalls : SendInitialContext(io, call)
    \/ \E i \in 1..MaxClock, result \in LogResults, call \in LogCalls : LogRead(i, result, call)
    \/ \E i \in 1..MaxClock, result \in LogResults : LogWrite(i, result)
LogSpec == Init /\ [][LogNext]_vars

\* the documents the transaction-state read is applied to: every document of up
\* to MaxDoc characters, and a three-line document with a long last line
ExampleDoc == <<"\n", "\n", "a", "a", "a", "a", "a", "a", "a", "a", "a", "a">>
ReadDocs == UNION {[1..n -> DocChars] : n \in 0..MaxDoc} \cup {ExampleDoc}

\* the transaction-state read on every document and every main selection
ReadInit ==
    /\ WmInit
    /\ edDoc \in ReadDocs
    /\ edSel \in [anchor : 0..Len(edDoc), head : 0..Len(edDoc)]
    /\ edFocus \in BOOLEAN
    /\ deco = <<>>
    /\ edLast = Last("create", FALSE)
ReadNext == clock = 0 /\ StateRead
ReadSpec == ReadInit /\ [][ReadNext]_vars

----------------------------------------------------------------------------
(* Properties *)

\* the events that broadcast the current file context
ContextEvents == {"active-leaf-change", "file-open", "initial"}

\* a Markdown view with an editor and a backing file is the active view
ActiveQualifies == leaf \in MdViews /\ views[leaf].file # NoFile

\* what the transaction state of view v holds now
NowText(v) == cmText(viewDoc(views[v]), mainSelection(views[v]))
NowRange(v) == cmRange(viewDoc(views[v]), mainSelection(views[v]))

\* C1: an active-leaf-change handled while no Markdown view is active and the
\* cache is set emits one notification that carries the cached file path and
\* a selection taken from the cache: the re-read through the cached view, or
\* the stored text and range; it is never shaped by the empty branch.
C1_LeafChangeReemitsCache ==
    (ev.type = "active-leaf-change" /\ getActiveViewOfType = NoView
        /\ cachedSelectionState # <<>>)
    => /\ Len(ev.out) = 1
       /\ ev.q.kind = "ok"
       /\ ev.out[1].filePath = cachedSelectionState[1].filePath
       /\ ev.out[1].fileUrl = fileUrlOf(cachedSelectionState[1].filePath)
       /\ \/ /\ views[cachedSelectionState[1].view].alive
             /\ ev.out[1].text = NowText(cachedSelectionState[1].view)
             /\ ev.out[1].selection = NowRange(cachedSelectionState[1].view)
          \/ /\ ev.out[1].text = cachedSelectionState[1].text
             /\ ev.out[1].selection = cachedSelectionState[1].selection

\* C1 witness: with the panel active and the cached view destroyed, the event
\* re-emitted a stored non-empty selection
C1_Witness ==
    /\ ev.type = "active-leaf-change" /\ leaf = Panel
    /\ cachedSelectionState # <<>>
    /\ ~views[cachedSelectionState[1].view].alive
    /\ Len(ev.out) = 1 /\ ev.out[1].text # <<>> /\ ~ev.out[1].selection.isEmpty

\* C2: in every state and for every outcome of the reads, getCurrentSelection
\* reports fromCache = FALSE for the active view's transaction-state read, its
\* plain-accessor fallback and a successful re-read through the cached view,
\* and fromCache = TRUE exactly when no active view qualifies, the cache is
\* set and the cached view cannot be read.
C2_FromCacheFlag ==
    \A io \in IOs :
        LET r == getCurrentSelection(io, clock)
        IN  r.kind = "ok" =>
            /\ r.fromCache <=> /\ ~ActiveQualifies
                               /\ cachedSelectionState # <<>>
                               /\ ~(views[cachedSelectionState[1].view].alive /\ ~io.cm)
            /\ r.src \in {"cm", "plain", "reread"} => ~r.fromCache
            /\ r.src = "stored" => r.fromCache

\* C2 witness: a query was answered from the stored cache, with a non-empty text
C2_Witness ==
    /\ ev.type = "query" /\ ev.q.kind = "ok" /\ ev.q.fromCache
    /\ ev.q.text # <<>>

\* C3 as stated: after getCurrentSelection succeeded in a transaction-state read
\* of the active view, the cache holds that read, tagged with the active view.
C3_QueryWritesCache ==
    (ev.type \in ContextEvents \cup {"query"} /\ ev.q.kind = "ok" /\ ev.q.src = "cm")
    => /\ cachedSelectionState # <<>>
       /\ cachedSelectionState[1].text = ev.q.text
       /\ cachedSelectionState[1].filePath = ev.q.filePath
       /\ cachedSelectionState[1].selection = ev.q.selection
       /\ cachedSelectionState[1].view = leaf

\* C3 amended: the cache is written by the selectionchange path, not by the
\* query. A selectionchange handled with a Markdown view active that emits its
\* notification leaves the cache equal to what it read and emitted, tagged with
\* the active view and the time of the event; getCurrentSelection (called by a
\* tool or by a context event) leaves the cache as it was.
C3_SelectionChangeWritesCache ==
    [][ /\ (ev'.type = "selectionchange" /\ ev'.out # <<>> /\ leaf' \in MdViews)
           => /\ cachedSelectionState' # <<>>
              /\ cachedSelectionState'[1].text = ev'.out[1].text
              /\ cachedSelectionState'[1].filePath = ev'.out[1].filePath
              /\ cachedSelectionState'[1].fileUrl = ev'.out[1].fileUrl
              /\ cachedSelectionState'[1].selection = ev'.out[1].selection
              /\ cachedSelectionState'[1].view = leaf'
              /\ cachedSelectionState'[1].timestamp = ev'.at
        /\ (ev'.type \in ContextEvents \cup {"query"})
           => cachedSelectionState' = cachedSelectionState ]_vars

\* C3 witness: a selectionchange stored a non-empty selection read from the
\* transaction state of the active view, replacing an older cache entry
C3_Witness ==
    /\ ev.type = "selectionchange" /\ Len(ev.out) = 1 /\ ev.q.src = "cm"
    /\ cachedSelectionState # <<>>
    /\ cachedSelectionState[1].text # <<>>
    /\ cachedSelectionState[1].timestamp = clock /\ clock > 1

\* C4 as stated: every trigger (an active-leaf-change, a file-open with a file,
\* a selectionchange that passes the gate while the active view has an editor)
\* calls onSelectionChange exactly once.
C4_ExactlyOneNotification ==
    (\/ ev.type \in {"active-leaf-change", "file-open"}
     \/ ev.type = "selectionchange" /\ isSelectionInEditableNote(ev.dom) /\ hasEditor(leaf))
    => Len(ev.out) = 1

\* a well-formed SelectionRange value: present, with natural line and character
IsRange(r) ==
    /\ r.start.line \in Nat /\ r.start.character \in Nat
    /\ r.end.line \in Nat /\ r.end.character \in Nat
    /\ r.isEmpty \in BOOLEAN

EmptyShape == Params(<<>>, NoFile, NoFile, ZeroRange)

\* C5: every emitted notification carries a selection; a context broadcast with
\* no active file, no qualifying active view and no cache emits exactly
\* text "", filePath null, fileUrl null and the zero range marked empty; and
\* every notification whose filePath is null is that one.
C5_EmptyShape ==
    /\ \A i \in 1..Len(ev.out) :
          /\ IsRange(ev.out[i].selection)
          /\ ev.out[i].filePath = NoFile => ev.out[i] = EmptyShape
    /\ (ev.type \in ContextEvents /\ getActiveFile = NoFile /\ ~ActiveQualifies
           /\ cachedSelectionState = <<>>)
       => ev.out = <<EmptyShape>>

\* C5 witness: a context event broadcast the empty shape with a null path
C5_Witness ==
    /\ ev.type \in ContextEvents /\ getActiveFile = NoFile
    /\ cachedSelectionState = <<>>
    /\ ev.out = <<EmptyShape>>

\* C6: in the highlight extension, a focus change never changes the document,
\* every gain of focus leaves the decoration None (so losing focus with a
\* selection and regaining it without an edit leaves the document as it was and
\* no mark), and whenever the editor is focused the decoration is None.
C6_FocusClearsDecoration ==
    /\ [](edFocus => deco = <<>>)
    /\ [][ /\ edFocus' # edFocus => edDoc' = edDoc
           /\ (~edFocus /\ edFocus') => deco' = <<>> /\ edLast'.op = "gain" ]_vars

\* C6 witness: focus was regained while the mark of a non-empty selection was
\* shown: the mark is gone
C6_Witness ==
    /\ edLast.op = "gain" /\ edLast.mark
    /\ edFocus /\ edSel.anchor # edSel.head
    /\ deco = <<>>

\* a SelectionRange is empty exactly when its ends are equal, and otherwise its
\* start comes strictly before its end in document order
RangeOk(r) ==
    /\ r.isEmpty <=> r.start = r.end
    /\ ~r.isEmpty => PosLeq(r.start, r.end) /\ r.start # r.end

\* C7: every SelectionRange in a snapshot, in the cache or in a notification,
\* and every range any read path of getCurrentSelection would return now, has
\* isEmpty exactly when start = end, and start before end otherwise.
C7_RangeWellFormed ==
    /\ \A i \in 1..Len(ev.out) : RangeOk(ev.out[i].selection)
    /\ RangeOk(ev.q.selection)
    /\ cachedSelectionState # <<>> => RangeOk(cachedSelectionState[1].selection)
    /\ \A io \in IOs : RangeOk(getCurrentSelection(io, clock).selection)

\* C7 witness: a notification carries a range that spans two lines, its start
\* character after its end character, read from a reversed drag (head before anchor)
C7_Witness ==
    /\ Len(ev.out) = 1
    /\ ~ev.out[1].selection.isEmpty
    /\ ev.out[1].selection.start.line < ev.out[1].selection.end.line
    /\ ev.out[1].selection.start.character > ev.out[1].selection.end.character
    /\ leaf \in MdViews /\ views[leaf].head < views[leaf].anchor

\* the anchor of the DOM selection lies in a modal, in a settings pane, outside
\* the workspace container, or under no editor container
InClass(dom, c) == \E j \in 1..Len(dom.chain) : c \in dom.chain[j]
OutsideEditableNote(dom) ==
    \/ ~dom.has
    \/ InClass(dom, "modal")
    \/ InClass(dom, "vertical-tab-content")
    \/ ~InClass(dom, "workspace")
    \/ \A c \in EditorClasses : ~InClass(dom, c)

\* C8 as stated: for every DOM selection whose anchor lies in a modal, in a
\* settings pane, outside the workspace or under no editor container, the gate
\* returns false, and a selectionchange handled for it reads nothing, leaves the
\* cache as it was and emits nothing.
C8_GateRejectsNonEditor ==
    (ev.type = "selectionchange" /\ OutsideEditableNote(ev.dom))
    => /\ ~isSelectionInEditableNote(ev.dom)
       /\ ev.out = <<>> /\ ev.q = NoSnap /\ cachedSelectionState = <<>>

\* C9 as stated: the text and range of every notification were read while its
\* own event was handled, never earlier, and the notification reached the sink
\* during that event.
C9_NeverOlderThanEvent ==
    ev.out # <<>> => ev.q.readAt = ev.at /\ ev.at = clock

\* C9 amended: every notification reaches the sink while its own event is
\* handled, so in the order of the events. Its text and range were read during
\* that event (from the transaction state of the active view or of the cached
\* view, which they equal, or from the plain accessor) except when they are the
\* stored cache fields, served with fromCache = TRUE: those were read by the
\* selectionchange that wrote the cache, at the cache's timestamp, before the
\* event.
C9_FreshUnlessStored ==
    ev.out # <<>> =>
        /\ ev.at = clock
        /\ ev.out[1].text = ev.q.text /\ ev.out[1].selection = ev.q.selection
        /\ ev.q.src \in {"cm", "plain", "reread", "stored", "null"}
        /\ ev.q.src = "cm"
           => /\ ev.q.readAt = ev.at
              /\ ev.q.text = NowText(leaf) /\ ev.q.selection = NowRange(leaf)
        /\ ev.q.src = "plain" => ev.q.readAt = ev.at
        /\ ev.q.src = "reread"
           => /\ ev.q.readAt = ev.at
              /\ ev.q.text = NowText(cachedSelectionState[1].view)
              /\ ev.q.selection = NowRange(cachedSelectionState[1].view)
        /\ ev.q.src = "stored"
           => /\ ev.q.fromCache
              /\ ev.q.readAt = cachedSelectionState[1].timestamp
              /\ ev.q.readAt < ev.at
              /\ ev.q.text = cachedSelectionState[1].text
              /\ ev.q.selection = cachedSelectionState[1].selection
        /\ ev.q.src = "null" => ev.out[1].selection = ZeroRange

\* C9 witness: a notification served from the stored fields of a destroyed view,
\* read at an earlier time than its event
C9_Witness ==
    /\ ev.out # <<>> /\ ev.q.src = "stored" /\ ev.q.readAt < ev.at
    /\ ev.q.text # <<>>

\* C10 as stated: no failure of a source is fatal: no handled event ends with an
\* exception, getCurrentSelection returns a snapshot or null, and every context
\* event emits its notification.
C10_NoFailureIsFatal ==
    /\ ~ev.threw
    /\ ev.q.kind # "throw"
    /\ ev.type \in ContextEvents => Len(ev.out) = 1

\* the lines of a document: the text between newlines, in order
RECURSIVE SplitLines(_)
SplitLines(doc) ==
    IF \A i \in 1..Len(doc) : doc[i] # "\n" THEN <<doc>>
    ELSE LET n == CHOOSE i \in 1..Len(doc) :
                      doc[i] = "\n" /\ \A j \in 1..(i - 1) : doc[j] # "\n"
         IN  <<SubSeq(doc, 1, n - 1)>> \o SplitLines(SubSeq(doc, n + 1, Len(doc)))

\* the offset at which line k (0-based) starts: the lines before it and their newlines
RECURSIVE LineStart(_, _)
LineStart(lines, k) ==
    IF k = 0 THEN 0 ELSE LineStart(lines, k - 1) + Len(lines[k]) + 1

\* position p names offset off of the document: p.line is a line of it,
\* p.character lies within that line, and the line's start plus p.character is off
NamesOffset(p, doc, off) ==
    LET lines == SplitLines(doc)
    IN  /\ p.line \in 0..(Len(lines) - 1)
        /\ p.character \in 0..Len(lines[p.line + 1])
        /\ LineStart(lines, p.line) + p.character = off

\* C11: for every document and every main selection, the transaction-state read
\* reports start as the 0-based line holding from and from minus that line's
\* start, end likewise for to, isEmpty exactly when from = to, and as text the
\* characters of the document in [from, to).
C11_OffsetsToLineCharacter ==
    ev.type = "read" =>
        /\ NamesOffset(ev.q.selection.start, edDoc, edMain.from)
        /\ NamesOffset(ev.q.selection.end, edDoc, edMain.to)
        /\ ev.q.selection.isEmpty <=> edMain.from = edMain.to
        /\ Len(ev.q.text) = edMain.to - edMain.from
        /\ \A i \in 1..Len(ev.q.text) : ev.q.text[i] = edDoc[edMain.from + i]

\* C11 witness: characters 5 to 10 of line 2 of the three-line document are
\* selected (offsets 7 to 12) and the read reports (2,5)-(2,10), not empty
C11_Witness ==
    /\ ev.type = "read" /\ edDoc = ExampleDoc
    /\ edMain.from = 7 /\ edMain.to = 12
    /\ ev.q.selection = Range(Pos(2, 5), Pos(2, 10), FALSE)
    /\ ev.q.text = <<"a", "a", "a", "a", "a">>

\* the decoration is None or one mark that covers characters of the document
DecorationOk ==
    \/ deco = <<>>
    \/ /\ Len(deco) = 1
       /\ 0 <= deco[1].from /\ deco[1].from < deco[1].to /\ deco[1].to <= Len(edDoc)

\* the deletions of the current document that remove every character of the mark
CoveringDeletions ==
    {d \in (0..Len(edDoc)) \X (0..Len(edDoc)) :
        deco # <<>> /\ d[1] <= deco[1].from /\ deco[1].to <= d[2]}

\* C12: in every state the decoration is None or a single mark with
\* 0 <= from < to <= document length; while a mark is shown, every deletion
\* that removes all of its characters can be applied (the update does not fail),
\* and after such a deletion the decoration covers no character: it is None.
C12_DeletedSpanCollapses ==
    /\ [](DecorationOk /\ \A d \in CoveringDeletions : ENABLED EdChange(d[1], d[2], <<>>))
    /\ [][edLast'.cover => deco' = <<>>]_vars

\* C12 witness: a deletion removed every character of a shown mark, in an
\* unfocused editor whose document keeps other characters
C12_Witness ==
    /\ edLast.op = "change" /\ edLast.mark /\ edLast.cover
    /\ ~edFocus /\ deco = <<>> /\ Len(edDoc) > 0

\* C13: for every outcome of the reads, getCurrentSelection returns null exactly
\* when no active Markdown view with an editor and a backing file exists and the
\* cache is empty; a query or a context event leaves the cache as it was, no
\* step resets a written cache to empty, and so with a written cache no query
\* returns null.
C13_NullIffNoViewNoCache ==
    /\ [](\A io \in IOs :
            /\ getCurrentSelection(io, clock).kind = "null"
               <=> (~ActiveQualifies /\ cachedSelectionState = <<>>)
            /\ cachedSelectionState # <<>> => getCurrentSelection(io, clock).kind # "null")
    /\ [](ev.type = "query" /\ cachedSelectionState # <<>> => ev.q.kind # "null")
    /\ [][ /\ cachedSelectionState # <<>> => cachedSelectionState' # <<>>
           /\ ev'.type \in ContextEvents \cup {"query"}
              => cachedSelectionState' = cachedSelectionState ]_vars

\* C13 witness: after the cache was written and its view destroyed, with no
\* Markdown view active, a query returned a snapshot and left the cache in place
C13_Witness ==
    /\ ev.type = "query" /\ ev.q.kind = "ok"
    /\ ~ActiveQualifies /\ leaf = Panel
    /\ cachedSelectionState # <<>>
    /\ ~views[cachedSelectionState[1].view].alive
    /\ cachedSelectionState[1].timestamp < ev.at

\* C14: every loss of focus leaves the selection as it was; when the main
\* selection is not empty the decoration becomes exactly the mark (from, to) of
\* that selection; when it is empty the handler dispatches no effect and the
\* decoration is None after the transition.
C14_FocusLossMarksSelection ==
    [][ (edFocus /\ ~edFocus')
        => /\ edSel' = edSel /\ edLast'.op = "loss"
           /\ ~edMain.empty
              => /\ focusChangeHandler(edMain, FALSE) = <<SetEffect(edMain.from, edMain.to)>>
                 /\ deco' = <<[from |-> edMain.from, to |-> edMain.to]>>
           /\ edMain.empty
              => /\ focusChangeHandler(edMain, FALSE) = <<>>
                 /\ deco' = <<>> ]_vars

\* C14 witness: focus was lost with a reversed selection (head before anchor)
\* that ends at the end of the document, and the mark shows exactly that range
C14_Witness ==
    /\ edLast.op = "loss" /\ ~edFocus
    /\ edSel.head < edSel.anchor /\ edSel.anchor = Len(edDoc)
    /\ deco = <<[from |-> edSel.head, to |-> edSel.anchor]>>

\* C15 as stated: in every state, for every DOM selection and every outcome of
\* the reads, a selectionchange that emits a notification emits the params an
\* active-leaf-change handled in that state, with the same outcome of the reads,
\* would emit.
C15_SameParamsAsLeafChange ==
    \A dom \in SampleDoms, io \in IOs :
        LET bySelection == checkAndSendSelection(dom, io, clock + 1)
            byLeafChange == sendCurrentFileContext(io, "ok", clock + 1)
        IN  bySelection.out # <<>> => byLeafChange.out = bySelection.out

\* C16 as stated: whenever the editor is unfocused and a mark (from, to) is
\* shown, a tracker read of the editor's transaction state reports a non-empty
\* range whose start names offset from and whose end names offset to, and the
\* text of [from, to).
C16_TrackerOverlayAgree ==
    (~edFocus /\ deco # <<>>)
    => LET r == editorStateRead(clock)
       IN  /\ ~r.selection.isEmpty
           /\ NamesOffset(r.selection.start, edDoc, deco[1].from)
           /\ NamesOffset(r.selection.end, edDoc, deco[1].to)
           /\ r.text = sliceString(edDoc, deco[1].from, deco[1].to)

\* what a context broadcast emits for the snapshot q it read
ExpectedContext(q) ==
    IF q.kind = "ok" /\ q.filePath # NoFile
    THEN <<shapeSelection(q)>>
    ELSE <<shapeEmpty(getActiveFile)>>

\* C17: a context broadcast that started its log write (its selection query
\* returned) emits exactly the notification shaped from what it read and ends
\* without an exception, whether adapter.read returned a promise or threw; it
\* emits in the step that starts the write, before any read or write has
\* settled; and the later outcomes of the read and the write (success,
\* rejection, throw) change nothing but the log and its tasks.
C17_LogNeverBlocksBroadcast ==
    /\ [](ev.type \in ContextEvents /\ ev.q.kind # "throw"
            => /\ ~ev.threw
               /\ ev.out = ExpectedContext(ev.q)
               /\ Len(ev.log) = 1 /\ ev.log[1].stage \in {"read", "failed"})
    /\ [][ /\ (ev'.type \in ContextEvents /\ clock' # clock)
              => logTasks' = logTasks \o ev'.log /\ debugLog' = debugLog
           /\ (logTasks' # logTasks /\ clock' = clock)
              => /\ ev' = ev
                 /\ UNCHANGED <<views, leaf, lastFile, cachedSelectionState>> ]_vars

\* C17 witness: adapter.read threw when the broadcast started its log write, and
\* the broadcast still emitted its notification for the active file
C17_Witness ==
    /\ ev.type \in ContextEvents /\ ~ev.threw
    /\ Len(ev.log) = 1 /\ ev.log[1].stage = "failed"
    /\ Len(ev.out) = 1 /\ ev.out[1].filePath # NoFile

\* C19 as stated: when every log write started so far has completed with each
\* of its reads and writes successful, the log holds exactly one record per
\* invocation.
C19_NoRecordLost ==
    (\A i \in 1..Len(logTasks) : logTasks[i].stage = "done" /\ logTasks[i].clean)
    => /\ Len(debugLog) = Len(logTasks)
       /\ \A i \in 1..Len(logTasks) : \E j \in 1..Len(debugLog) : debugLog[j] = i

\* C18 as stated: every notification with a file path carries a text and a
\* range read from the document of that file: a read of the active view's editor
\* is paired with the file the active view shows, and a re-read through the
\* cached view with the file the cached view shows now.
C18_PathMatchesDocument ==
    \A i \in 1..Len(ev.out) :
        ev.out[i].filePath # NoFile =>
            /\ ev.q.src \in {"cm", "plain"} => ev.out[i].filePath = views[leaf].file
            /\ ev.q.src = "reread"
               => ev.out[i].filePath = views[cachedSelectionState[1].view].file

====
